---------------------------- MODULE Spec2Model ----------------------------
(***************************************************************************)
(* CSTRSimulator (src/Chemical reactor/src/utils/cstrModel.ts) and the     *)
(* caller that holds the objects it passes to and receives from it.        *)
(*                                                                         *)
(* Numbers.  A JavaScript number is modelled as a signed rational with the *)
(* IEEE-754 special values: [neg, n, d] stands for (-1)^neg * n/d, with    *)
(*   d > 0          a finite value in lowest terms (n = 0: a signed zero), *)
(*   n = 1, d = 0   an infinity,                                           *)
(*   n = 0, d = 0   NaN (neg = FALSE).                                     *)
(* Arithmetic on finite values is exact: the rounding of binary floating   *)
(* point is not modelled.  Division by zero, the signs of zeros and the    *)
(* propagation of infinities and NaN follow IEEE-754.                      *)
(*                                                                         *)
(* Objects.  The state and parameter objects live on a heap and are held   *)
(* by reference, so that a copy and an alias are different things.         *)
(***************************************************************************)
EXTENDS Integers, Sequences, FiniteSets, TLC

\* ------------------------------------------------------------ evaluation

\* F(v), F(v, w): the arguments are evaluated once, before F is applied (an
\* operator's argument is otherwise evaluated again at each use in its body).
\* Bind(e, LAMBDA x : body) reads "const x = e; body".
Bind(v, F(_)) == CHOOSE r \in {F(x) : x \in {v}} : TRUE
Bind2(v, w, F(_, _)) == CHOOSE r \in {F(x, y) : x \in {v}, y \in {w}} : TRUE

\* ------------------------------------------------------------ numbers

\* The largest numerator and denominator the model represents.
MaxMagnitude == 1000000000

\* A value outside the model's numbers: a rational whose numerator or
\* denominator passes MaxMagnitude, or an irrational result.  Every operation
\* on it yields it again, and no state of the model holds it (see Step).
Unrep == [neg |-> FALSE, n |-> 0, d |-> -1]
IsUnrep(x) == x.d < 0

\* The greatest common divisor (Euclid)
Gcd[a \in Nat, b \in Nat] == IF b = 0 THEN a ELSE Gcd[b, a % b]

\* a * b for naturals, or -1 when it passes MaxMagnitude.
Times(a, b) ==
  IF a < 0 \/ b < 0 THEN -1
  ELSE IF a = 0 \/ b = 0 THEN 0
  ELSE IF a > MaxMagnitude \div b THEN -1 ELSE a * b

\* The value with sign neg and magnitude n/d, in its canonical form.
Canonical(neg, n, d) ==
  IF n < 0 \/ d < 0 THEN Unrep
  ELSE IF d = 0
    THEN IF n = 0 THEN [neg |-> FALSE, n |-> 0, d |-> 0]
                  ELSE [neg |-> neg, n |-> 1, d |-> 0]
    ELSE IF n = 0 THEN [neg |-> neg, n |-> 0, d |-> 1]
    ELSE Bind(Gcd[n, d], LAMBDA g :
           IF n \div g > MaxMagnitude \/ d \div g > MaxMagnitude THEN Unrep
           ELSE [neg |-> neg, n |-> n \div g, d |-> d \div g])
Norm(neg, n, d) == Bind2(n, d, LAMBDA a, b : Canonical(neg, a, b))

NaN == [neg |-> FALSE, n |-> 0, d |-> 0]
PosInf == [neg |-> FALSE, n |-> 1, d |-> 0]
NegInf == [neg |-> TRUE, n |-> 1, d |-> 0]

\* The number literals p/q (q > 0) and i.
Rat(p, q) == IF p < 0 THEN Norm(TRUE, -p, q) ELSE Norm(FALSE, p, q)
Num(i) == [neg |-> i < 0, n |-> IF i < 0 THEN -i ELSE i, d |-> 1]
NegZero == [neg |-> TRUE, n |-> 0, d |-> 1]

IsNaN(x) == x.d = 0 /\ x.n = 0
IsInf(x) == x.d = 0 /\ x.n = 1
IsFinite(x) == x.d > 0
IsZero(x) == x.d > 0 /\ x.n = 0

\* -x
Negated(x) == IF IsNaN(x) \/ IsUnrep(x) THEN x ELSE [x EXCEPT !.neg = ~x.neg]
Neg(x) == Bind(x, Negated)

\* x * y.  0 * Infinity = NaN falls out of the magnitudes: (0*1)/(1*0) = 0/0.
Product(x, y) ==
  IF IsUnrep(x) \/ IsUnrep(y) THEN Unrep
  ELSE Bind2(IF x.n = 0 \/ y.d = 0 THEN 1 ELSE Gcd[x.n, y.d],
             IF y.n = 0 \/ x.d = 0 THEN 1 ELSE Gcd[y.n, x.d],
             LAMBDA g1, g2 :
               Norm(x.neg # y.neg,
                    Times(x.n \div g1, y.n \div g2),
                    Times(x.d \div g2, y.d \div g1)))

Mul(x, y) == Bind2(x, y, Product)

\* 1/x: 1/(+-0) = +-Infinity, 1/(+-Infinity) = +-0.
Reciprocal(x) == IF IsUnrep(x) THEN Unrep ELSE Norm(x.neg, x.d, x.n)
Recip(x) == Bind(x, Reciprocal)

\* x / y
Div(x, y) == Mul(x, Recip(y))

\* x + y.  Infinity + -Infinity = NaN; a zero sum is -0 only for -0 + -0.
Sum(x, y) ==
  IF IsUnrep(x) \/ IsUnrep(y) THEN Unrep
  ELSE IF IsNaN(x) \/ IsNaN(y) THEN NaN
  ELSE IF IsInf(x) THEN (IF IsInf(y) /\ x.neg # y.neg THEN NaN ELSE x)
  ELSE IF IsInf(y) THEN y
  ELSE Bind(Gcd[x.d, y.d], LAMBDA g :
       Bind2(Times(x.n, y.d \div g), Times(y.n, x.d \div g), LAMBDA a, b :
       Bind(Times(x.d \div g, y.d), LAMBDA l :
         IF a < 0 \/ b < 0 \/ l < 0 THEN Unrep
         ELSE Bind((IF x.neg THEN -a ELSE a) + (IF y.neg THEN -b ELSE b),
                   LAMBDA s :
                     IF s = 0 THEN [neg |-> x.neg /\ y.neg, n |-> 0, d |-> 1]
                     ELSE Norm(s < 0, IF s < 0 THEN -s ELSE s, l)))))

Add(x, y) == Bind2(x, y, Sum)

\* x - y
Sub(x, y) == Add(x, Neg(y))

\* The comparisons are applied to numbers of the model only.
\* x === y: NaN equals nothing, -0 equals +0.
StrictEq(x, y) ==
  /\ ~IsNaN(x) /\ ~IsNaN(y)
  /\ \/ x = y
     \/ IsZero(x) /\ IsZero(y)

\* x > y: false when either is NaN.
Gt(x, y) ==
  /\ ~IsNaN(x) /\ ~IsNaN(y)
  /\ IF IsInf(x) \/ IsInf(y)
       THEN (IsInf(x) /\ ~x.neg /\ x # y) \/ (IsInf(y) /\ y.neg /\ x # y)
       ELSE Bind(Sub(x, y), LAMBDA z : ~z.neg /\ z.n > 0)

\* x >= y
Ge(x, y) == Gt(x, y) \/ StrictEq(x, y)

IsInteger(x) == x.d = 1

\* x^k for an integer k >= 0, by repeated multiplication.
RECURSIVE IntPow(_, _)
IntPow(x, k) == IF k = 0 THEN Num(1) ELSE Mul(x, IntPow(x, k - 1))

\* Math.exp(x) where the result is rational or special.
MathExp(x) ==
  IF IsUnrep(x) THEN Unrep
  ELSE IF IsNaN(x) THEN NaN
  ELSE IF IsInf(x) THEN (IF x.neg THEN Num(0) ELSE PosInf)
  ELSE IF IsZero(x) THEN Num(1)
  ELSE Unrep

\* Math.exp(x) is finite (and >= +0) for every finite x below its overflow
\* threshold of about 709.78: here, for the finite x <= 709.
ExpIsFinite(x) ==
  IsFinite(x) /\ (x.neg \/ x.n \div x.d < 709 \/ (x.n = 709 /\ x.d = 1))

\* Math.pow(b, e)
MathPow(b, e) ==
  IF IsZero(e) THEN Num(1)
  ELSE IF IsUnrep(b) \/ IsUnrep(e) THEN Unrep
  ELSE IF IsNaN(b) \/ IsNaN(e) THEN NaN
  ELSE IF IsInteger(e) THEN
    (IF e.neg THEN Recip(IntPow(b, e.n)) ELSE IntPow(b, e.n))
  ELSE IF IsInf(e) THEN
    Bind([b EXCEPT !.neg = FALSE], LAMBDA mag :
      IF StrictEq(mag, Num(1)) THEN NaN
      ELSE IF Gt(mag, Num(1)) = ~e.neg THEN PosInf ELSE Num(0))
  ELSE \* a finite exponent that is no integer
    IF IsZero(b) THEN (IF e.neg THEN PosInf ELSE Num(0))
    ELSE IF IsInf(b) THEN (IF e.neg THEN Num(0) ELSE PosInf)
    ELSE IF b.neg THEN NaN
    ELSE IF b = Num(1) THEN Num(1)
    ELSE Unrep

\* ------------------------------------------------------------ objects

StateFields == {"volume", "concentration", "temperature", "jacketTemp", "time"}

ParamFields ==
  {"inletFlowRate", "feedConcentration", "feedTemperature", "jacketInletTemp",
   "valveConstant", "minimumVolume", "preExponentialFactor", "activationEnergy",
   "gasConstant", "reactionOrder", "density", "heatCapacity", "heatOfReaction",
   "heatTransferCoeff", "heatTransferArea", "jacketDensity", "jacketHeatCapacity",
   "jacketVolume", "jacketFlowRate"}

\* A heap maps references (positive integers) to objects.

\* The reference of a newly created object: the least one not in use.
NewRef(h) ==
  CHOOSE r \in 1..(Cardinality(DOMAIN h) + 1) :
    r \notin DOMAIN h /\ \A q \in 1..(r - 1) : q \in DOMAIN h

\* The heap h with object o stored at reference r.
Put(h, r, o) == [x \in DOMAIN h \cup {r} |-> IF x = r THEN o ELSE h[x]]

\* A reference is an identity only.  Between calls the references held (the
\* sequence refs) are renamed 1, 2, .. in the order of refs, and the heap keeps
\* the objects they refer to: what nothing refers to any more is gone.
Rank(refs, r) ==
  Cardinality({refs[j] : j \in 1..(CHOOSE i \in 1..Len(refs) :
                                     refs[i] = r /\ \A j \in 1..(i - 1) : refs[j] # r)})
Collect(h, refs) ==
  [k \in {Rank(refs, refs[i]) : i \in 1..Len(refs)} |->
     h[CHOOSE r \in {refs[i] : i \in 1..Len(refs)} : Rank(refs, r) = k]]

\* { ...a, ...b }: the own properties of a, overridden and extended by b's.
Spread(a, b) ==
  [f \in DOMAIN a \cup DOMAIN b |-> IF f \in DOMAIN b THEN b[f] ELSE a[f]]

\* { ...a }
Copy(a) == Spread(<<>>, a)

\* ------------------------------------------------------------ CSTRSimulator
\* A simulator instance `m` is [sh, ph, state, params]: the two heaps, and the
\* references this.state and this.params.

dt == Rat(1, 10)

\* this.state and this.params, dereferenced
S(m) == m.sh[m.state]
P(m) == m.ph[m.params]

\* The values of this.state and this.params
Read(m) == [state |-> S(m), params |-> P(m)]

\* A faulty getOutletFlowRate: the minimum volume is left out.
getOutletFlowRate_noMinimum(m) == Mul(P(m).valveConstant, S(m).volume)

\* A faulty getOutletFlowRate: a negative flow is clamped to 0.
getOutletFlowRate_clamped(m) ==
  Bind(Mul(P(m).valveConstant, Sub(S(m).volume, P(m).minimumVolume)),
       LAMBDA flow : IF Gt(Num(0), flow) THEN Num(0) ELSE flow)

getOutletFlowRate(m) ==
  Mul(P(m).valveConstant, Sub(S(m).volume, P(m).minimumVolume))

\* alpha * Math.exp(-E / (R * T)).  With alpha a zero and the exponential
\* finite the product is a zero of alpha's sign, whatever the exponential is.
calculateRateConstant(m) ==
  Bind(Div(Neg(P(m).activationEnergy),
           Mul(P(m).gasConstant, S(m).temperature)), LAMBDA x :
    IF IsZero(P(m).preExponentialFactor) /\ ExpIsFinite(x)
      THEN P(m).preExponentialFactor
      ELSE Mul(P(m).preExponentialFactor, MathExp(x)))

getReactionRateValue(m) ==
  Bind(calculateRateConstant(m), LAMBDA k :
    Mul(k, MathPow(S(m).concentration, P(m).reactionOrder)))

\* A faulty volumeDerivative: the reaction takes volume at its rate.
volumeDerivative_reacting(m) ==
  Bind(getOutletFlowRate(m), LAMBDA outletFlow :
    Sub(Sub(P(m).inletFlowRate, outletFlow),
        Mul(getReactionRateValue(m), S(m).volume)))

volumeDerivative(m) ==
  Bind(getOutletFlowRate(m), LAMBDA outletFlow :
    Sub(P(m).inletFlowRate, outletFlow))

\* A faulty concentrationDerivative: the balance is not divided by the volume.
concentrationDerivative_undivided(m) ==
  Bind(getOutletFlowRate(m), LAMBDA outletFlow :
  Bind(getReactionRateValue(m), LAMBDA reactionRate :
    Sub(Sub(Mul(P(m).inletFlowRate, P(m).feedConcentration),
            Mul(outletFlow, S(m).concentration)),
        Mul(S(m).volume, reactionRate))))

concentrationDerivative(m) ==
  Bind(getOutletFlowRate(m), LAMBDA outletFlow :
  Bind(getReactionRateValue(m), LAMBDA reactionRate :
    Div(Sub(Sub(Mul(P(m).inletFlowRate, P(m).feedConcentration),
                Mul(outletFlow, S(m).concentration)),
            Mul(S(m).volume, reactionRate)),
        S(m).volume)))

temperatureDerivative(m) ==
  Bind(getOutletFlowRate(m), LAMBDA outletFlow :
  Bind(getReactionRateValue(m), LAMBDA reactionRate :
  Bind(Mul(P(m).density, P(m).heatCapacity), LAMBDA volumetricHeatCapacity :
  Bind(Mul(volumetricHeatCapacity,
           Sub(Mul(P(m).inletFlowRate, P(m).feedTemperature),
               Mul(outletFlow, S(m).temperature))), LAMBDA convectiveTerm :
  Bind(Mul(Mul(P(m).heatOfReaction, S(m).volume), reactionRate),
       LAMBDA reactionTerm :
  Bind(Mul(Mul(P(m).heatTransferCoeff, P(m).heatTransferArea),
           Sub(S(m).temperature, S(m).jacketTemp)), LAMBDA heatTransferTerm :
    Div(Sub(Sub(convectiveTerm, reactionTerm), heatTransferTerm),
        Mul(volumetricHeatCapacity, S(m).volume))))))))

jacketTempDerivative(m) ==
  Bind(Mul(P(m).jacketDensity, P(m).jacketHeatCapacity),
       LAMBDA jacketHeatCapacity :
  Bind(Mul(Mul(P(m).jacketFlowRate, jacketHeatCapacity),
           Sub(P(m).jacketInletTemp, S(m).jacketTemp)), LAMBDA convectiveTerm :
  Bind(Mul(Mul(P(m).heatTransferCoeff, P(m).heatTransferArea),
           Sub(S(m).temperature, S(m).jacketTemp)), LAMBDA heatTransferTerm :
    Div(Add(convectiveTerm, heatTransferTerm),
        Mul(jacketHeatCapacity, P(m).jacketVolume)))))

\* The four derivatives at the current state, each times dt.
Derivatives(m) ==
  [v  |-> Mul(dt, volumeDerivative(m)),
   c  |-> Mul(dt, concentrationDerivative(m)),
   t  |-> Mul(dt, temperatureDerivative(m)),
   tj |-> Mul(dt, jacketTempDerivative(m))]

\* A faulty AddToState: the volume increment is also added to the inlet flow
\* rate of this.params.
AddToState_params(m, k) ==
  [m EXCEPT !.sh[m.state] =
              [@ EXCEPT !.volume = Add(@, k.v),
                        !.concentration = Add(@, k.c),
                        !.temperature = Add(@, k.t),
                        !.jacketTemp = Add(@, k.tj)],
            !.ph[m.params].inletFlowRate = Add(@, k.v)]

\* this.state.volume += k.v; ... this.state.jacketTemp += k.tj, in place.
AddToState(m, k) ==
  [m EXCEPT !.sh[m.state] =
     [@ EXCEPT !.volume = Add(@, k.v),
               !.concentration = Add(@, k.c),
               !.temperature = Add(@, k.t),
               !.jacketTemp = Add(@, k.tj)]]

\* A faulty RestoreState: the state perturbed for the last stage is kept.
RestoreState_skipped(m, originalState) == m

\* this.state = { ...originalState }
RestoreState(m, originalState) ==
  LET r == NewRef(m.sh)
  IN  [m EXCEPT !.sh = Put(m.sh, r, Copy(m.sh[originalState])), !.state = r]

\* k / q in every component
Over(k, q) == [i \in DOMAIN k |-> Div(k[i], Num(q))]

\* A faulty Combine: the plain mean of the four slopes.
Combine_unweighted(k1, k2, k3, k4) ==
  [i \in DOMAIN k1 |->
     Div(Add(Add(Add(k1[i], k2[i]), k3[i]), k4[i]), Num(4))]

\* (k1 + 2*k2 + 2*k3 + k4) / 6 in every component
Combine(k1, k2, k3, k4) ==
  [i \in DOMAIN k1 |->
     Div(Add(Add(Add(k1[i], Mul(Num(2), k2[i])), Mul(Num(2), k3[i])), k4[i]),
         Num(6))]

\* A faulty AdvanceTime: the time is advanced only when the new state is finite.
AdvanceTime_validated(m) ==
  IF \A f \in DOMAIN S(m) : IsFinite(S(m)[f])
    THEN [m EXCEPT !.sh[m.state].time = Add(@, dt)]
    ELSE m

\* A faulty AdvanceTime: dt is added twice.
AdvanceTime_twice(m) == [m EXCEPT !.sh[m.state].time = Add(Add(@, dt), dt)]

\* this.state.time += this.dt
AdvanceTime(m) == [m EXCEPT !.sh[m.state].time = Add(@, dt)]

\* A faulty ReturnState: this.state itself is returned.
ReturnState_alias(m) == [m |-> m, ret |-> m.state]

\* return { ...this.state }: the instance and the reference returned.
ReturnState(m) ==
  LET r == NewRef(m.sh)
  IN  [m |-> [m EXCEPT !.sh = Put(m.sh, r, Copy(S(m)))], ret |-> r]

\* const originalState = { ...this.state }: the instance and the reference
StoreOriginal(m) ==
  LET r == NewRef(m.sh)
  IN  [m |-> [m EXCEPT !.sh = Put(m.sh, r, Copy(S(m)))], ref |-> r]

\* step(): the instance after the call (m), the reference returned (ret), and
\* what each of the four derivative evaluations read (stages).
step(m) ==
  Bind(Derivatives(m), LAMBDA k1 :
  Bind(StoreOriginal(m), LAMBDA o :
  Bind(AddToState(o.m, Over(k1, 2)), LAMBDA m2 :
  Bind(Derivatives(m2), LAMBDA k2 :
  Bind(AddToState(RestoreState(m2, o.ref), Over(k2, 2)), LAMBDA m3 :
  Bind(Derivatives(m3), LAMBDA k3 :
  Bind(AddToState(RestoreState(m3, o.ref), k3), LAMBDA m4 :
  Bind(Derivatives(m4), LAMBDA k4 :
  Bind(AddToState(RestoreState(m4, o.ref), Combine(k1, k2, k3, k4)), LAMBDA m5 :
  Bind(ReturnState(AdvanceTime(m5)), LAMBDA out :
    [m |-> out.m, ret |-> out.ret,
     stages |-> <<Read(m), Read(m2), Read(m3), Read(m4)>>]))))))))))

\* A faulty constructor: initialState itself is stored as this.state.
constructor_aliasState(sh0, ph0, initialState, parameters) ==
  [sh |-> sh0,
   ph |-> Put(ph0, NewRef(ph0), Copy(ph0[parameters])),
   state |-> initialState, params |-> NewRef(ph0)]

\* A faulty constructor: the arguments themselves are stored.
constructor_alias(sh0, ph0, initialState, parameters) ==
  [sh |-> sh0, ph |-> ph0, state |-> initialState, params |-> parameters]

\* constructor(initialState, parameters) on the heaps sh0, ph0
constructor(sh0, ph0, initialState, parameters) ==
  LET s == NewRef(sh0)
      p == NewRef(ph0)
  IN  [sh |-> Put(sh0, s, Copy(sh0[initialState])),
       ph |-> Put(ph0, p, Copy(ph0[parameters])),
       state |-> s, params |-> p]

\* A faulty updateParameters: the current values override the new ones.
updateParameters_reversed(m, newParams) ==
  LET r == NewRef(m.ph)
  IN  [m EXCEPT !.ph = Put(m.ph, r, Spread(m.ph[newParams], P(m))), !.params = r]

\* A faulty updateParameters: the merged object is not assigned to this.params.
updateParameters_unassigned(m, newParams) == m

\* updateParameters(newParams)
updateParameters(m, newParams) ==
  LET r == NewRef(m.ph)
  IN  [m EXCEPT !.ph = Put(m.ph, r, Spread(P(m), m.ph[newParams])), !.params = r]

\* A faulty getState: reading the state advances the time.
getState_advances(m) == ReturnState(AdvanceTime(m))

\* getState()
getState(m) == ReturnState(m)

\* A faulty getConversion: feedConcentration is not compared with 0.
getConversion_unguarded(m) ==
  [m |-> m,
   ret |-> Mul(Div(Sub(P(m).feedConcentration, S(m).concentration),
                   P(m).feedConcentration),
               Num(100))]

\* A faulty getConversion: the fraction is returned, not the percentage.
getConversion_fraction(m) ==
  [m |-> m,
   ret |-> IF StrictEq(P(m).feedConcentration, Num(0)) THEN Num(0)
           ELSE Div(Sub(P(m).feedConcentration, S(m).concentration),
                    P(m).feedConcentration)]

\* The public getters: the instance after the call (m) and the number returned.
getConversion(m) ==
  [m |-> m,
   ret |-> IF StrictEq(P(m).feedConcentration, Num(0)) THEN Num(0)
           ELSE Mul(Div(Sub(P(m).feedConcentration, S(m).concentration),
                        P(m).feedConcentration),
                    Num(100))]

\* A faulty getResidenceTime: the volume is divided by the flow whatever it is.
getResidenceTime_unguarded(m) ==
  [m |-> m, ret |-> Div(S(m).volume, getOutletFlowRate(m))]

getResidenceTime(m) ==
  [m |-> m,
   ret |-> Bind(getOutletFlowRate(m), LAMBDA outletFlow :
             IF IsUnrep(outletFlow) THEN Unrep
             ELSE IF Gt(outletFlow, Num(0)) THEN Div(S(m).volume, outletFlow)
             ELSE Num(0))]

getHeatRemovalRate(m) ==
  [m |-> m,
   ret |-> Div(Mul(Mul(P(m).heatTransferCoeff, P(m).heatTransferArea),
                   Sub(S(m).temperature, S(m).jacketTemp)),
               Num(1000))]

getReactionRate(m) == [m |-> m, ret |-> getReactionRateValue(m)]

\* A faulty getOutletFlow: the flow is stored in this.state.volume.
getOutletFlow_stores(m) ==
  [m |-> [m EXCEPT !.sh[m.state].volume = getOutletFlowRate(m)],
   ret |-> getOutletFlowRate(m)]

getOutletFlow(m) == [m |-> m, ret |-> getOutletFlowRate(m)]

\* ------------------------------------------------------------ the caller
\* The code that constructs the simulator and calls it: it owns the objects it
\* passes in (initialState, parameters, newParams) and the last state object a
\* call returned, and may write to them at any time between calls.

VARIABLES
  sh,      \* heap of state objects
  ph,      \* heap of parameter objects
  sim,     \* the instance: [state, params], the references this.state, this.params
  caller,  \* the references the caller holds: initialState and parameters, and
           \* once it has them newParams (the last argument of updateParameters)
           \* and returned (the last state object a call returned); where it
           \* holds a second instance, which it does not call, otherState and
           \* otherParams are the state and params of that instance
  op,      \* the operation performed last
  ret,     \* <<x>>: the number the last diagnostic returned; <<>> otherwise
  hist     \* history, for stating the properties:
           \*   initial    the values the instance was constructed with
           \*   steps, updates, writes   the calls and writes made so far
           \*   before     the instance's values when the last operation began
           \*   stages     what the four evaluations of the last step() read
           \*   newParams  the argument of the last updateParameters
           \*   pending    <<p, a1, ..>>: parameters p were updated with a1, ..
           \*              since the last step(); <<>> if not updated
           \*   applied    the value of pending when the last step() began
           \*   written    the objects of the caller that it has written to
           \*   untouched  <<v>>: the values v of a second instance, constructed
           \*              with the same values and called the same way, whose
           \*              caller never writes; <<>> if there is none

vars == <<sh, ph, sim, caller, op, ret, hist>>

\* Bounds of the model
MaxSteps == 2
MaxUpdates == 1
MaxWrites == 1

BaseParameters ==
  [inletFlowRate |-> Num(1), feedConcentration |-> Num(1),
   feedTemperature |-> Num(2), jacketInletTemp |-> Num(1),
   valveConstant |-> Num(10), minimumVolume |-> Num(0),
   preExponentialFactor |-> Num(0), activationEnergy |-> Num(3),
   gasConstant |-> Num(1), reactionOrder |-> Num(2),
   density |-> Num(1), heatCapacity |-> Num(1), heatOfReaction |-> Num(1),
   heatTransferCoeff |-> Num(0), heatTransferArea |-> Num(1),
   jacketDensity |-> Num(1), jacketHeatCapacity |-> Num(1),
   jacketVolume |-> Num(1), jacketFlowRate |-> Num(10)]

\* The parameter objects a caller constructs the simulator with.
ParameterInputs ==
  {BaseParameters,
   [BaseParameters EXCEPT !.preExponentialFactor = Num(1),
                          !.activationEnergy = Num(0)],
   [BaseParameters EXCEPT !.valveConstant = Num(20),
                          !.minimumVolume = Rat(1, 20),
                          !.feedConcentration = Num(0)]}

BaseState ==
  [volume |-> Rat(1, 10), concentration |-> Num(1), temperature |-> Num(2),
   jacketTemp |-> Num(1), time |-> Num(0)]

\* The initial states a caller constructs the simulator with.
StateInputs ==
  {BaseState,
   [BaseState EXCEPT !.temperature = Num(3), !.jacketTemp = Num(2)],
   [BaseState EXCEPT !.volume = Num(1), !.concentration = Num(2),
                     !.temperature = Num(3), !.jacketTemp = Num(2),
                     !.time = Num(5)],
   [BaseState EXCEPT !.volume = Num(0)],
   [BaseState EXCEPT !.volume = Num(-1), !.concentration = Num(0)]}

\* The objects a caller passes to updateParameters.
PartialInputs ==
  {[preExponentialFactor |-> Num(1), activationEnergy |-> Num(0)],
   [inletFlowRate |-> Num(2)],
   [feedConcentration |-> Num(0), reactionOrder |-> Num(1)]}

\* The fields of its objects that a caller overwrites, and the value it
\* overwrites them with.
WrittenFields == {"volume", "inletFlowRate", "feedConcentration"}
WrittenValues == {Num(4)}

\* The instance with its heaps
M == [sh |-> sh, ph |-> ph, state |-> sim.state, params |-> sim.params]

\* The caller c having received reference r as `field`
Holding(c, field, r) == [f \in DOMAIN c \cup {field} |-> IF f = field THEN r ELSE c[f]]

\* The references to state objects, and to parameter objects, that the caller
\* c and the instance s hold.
StateRefs(s, c) ==
  <<c.initialState>> \o (IF "returned" \in DOMAIN c THEN <<c.returned>> ELSE <<>>)
                     \o (IF "otherState" \in DOMAIN c THEN <<c.otherState>>
                         ELSE <<>>)
                     \o <<s.state>>
ParamRefs(s, c) ==
  <<c.parameters>> \o (IF "newParams" \in DOMAIN c THEN <<c.newParams>> ELSE <<>>)
                   \o (IF "otherParams" \in DOMAIN c THEN <<c.otherParams>>
                       ELSE <<>>)
                   \o <<s.params>>

\* A new instance holding the values v = [state, params], on heaps of its own
Fresh(v) == constructor(<<v.state>>, <<v.params>>, 1, 1)

\* The values of the second instance after the same step() or
\* updateParameters(partial) as the first.
UntouchedStep(u) ==
  IF u = <<>> THEN <<>> ELSE <<Read(step(Fresh(u[1])).m)>>
UntouchedUpdate(u, partial) ==
  IF u = <<>> THEN <<>>
  ELSE <<Read(updateParameters(
                [Fresh(u[1]) EXCEPT !.ph = Put(@, NewRef(@), partial)],
                NewRef(Fresh(u[1]).ph)))>>

\* Every number of state object o is a number of the model.
Representable(o) == \A f \in DOMAIN o : ~IsUnrep(o[f])

\* The state after operation `name`, which leaves the instance at m2 and the
\* caller holding c2, and returned the numbers r.
After(m2, c2, name, r, h) ==
  /\ \E srefs \in {StateRefs(m2, c2)}, prefs \in {ParamRefs(m2, c2)} :
       /\ sim' = [state |-> Rank(srefs, m2.state),
                  params |-> Rank(prefs, m2.params)]
       /\ caller' = [f \in DOMAIN c2 |->
                       IF f \in {"initialState", "returned", "otherState"}
                         THEN Rank(srefs, c2[f]) ELSE Rank(prefs, c2[f])]
       /\ sh' = Collect(m2.sh, srefs)
       /\ ph' = Collect(m2.ph, prefs)
  /\ op' = name
  /\ ret' = r
  /\ hist' = [h EXCEPT !.before = Read(M)]

\* new CSTRSimulator(initialState, parameters), the arguments new objects
InitWith(states, parameters, second) ==
  \E s0 \in states, p0 \in parameters :
    \E m \in {constructor(<<s0>>, <<p0>>, 1, 1)} :
        /\ sim = [state |-> m.state, params |-> m.params]
        /\ caller = [initialState |-> 1, parameters |-> 1]
        /\ sh = m.sh
        /\ ph = m.ph
        /\ op = "constructor"
        /\ ret = <<>>
        /\ hist = [initial |-> [state |-> s0, params |-> p0],
                   steps |-> 0, updates |-> 0, writes |-> 0,
                   before |-> [state |-> s0, params |-> p0],
                   stages |-> <<>>, newParams |-> <<>>,
                   pending |-> <<>>, applied |-> <<>>, written |-> {},
                   untouched |-> IF second
                                 THEN <<[state |-> s0, params |-> p0]>>
                                 ELSE <<>>]

Init == InitWith(StateInputs, ParameterInputs, FALSE)

\* const newState = simulator.step()
Step ==
  /\ hist.steps < MaxSteps
  /\ \E r \in {step(M)} :
       /\ Representable(S(r.m))
       /\ After(r.m, Holding(caller, "returned", r.ret), "step", <<>>,
                [hist EXCEPT !.steps = @ + 1, !.stages = r.stages,
                             !.pending = <<>>, !.applied = hist.pending,
                             !.untouched = UntouchedStep(@)])

\* simulator.updateParameters(newParams), newParams a new object of the caller
UpdateParameters ==
  /\ hist.updates < MaxUpdates
  /\ \E partial \in PartialInputs :
     \E a \in {NewRef(ph)} :
     \E m \in {updateParameters([M EXCEPT !.ph = Put(ph, a, partial)], a)} :
       After(m, Holding(caller, "newParams", a), "updateParameters", <<>>,
             [hist EXCEPT !.updates = @ + 1, !.newParams = partial,
                          !.pending = IF @ = <<>> THEN <<P(M), partial>>
                                      ELSE Append(@, partial),
                          !.untouched = UntouchedUpdate(@, partial)])

\* const s = simulator.getState()
GetState ==
  \E r \in {getState(M)} :
    After(r.m, Holding(caller, "returned", r.ret), "getState", <<>>, hist)

\* const x = simulator.<getter>(), r its outcome
Diagnostic(name, r) ==
  /\ ~IsUnrep(r.ret)
  /\ After(r.m, caller, name, <<r.ret>>, hist)

GetConversion ==
  \E r \in {getConversion(M)} : Diagnostic("getConversion", r)
GetResidenceTime ==
  \E r \in {getResidenceTime(M)} : Diagnostic("getResidenceTime", r)
GetHeatRemovalRate ==
  \E r \in {getHeatRemovalRate(M)} : Diagnostic("getHeatRemovalRate", r)
GetReactionRate ==
  \E r \in {getReactionRate(M)} : Diagnostic("getReactionRate", r)
GetOutletFlow ==
  \E r \in {getOutletFlow(M)} : Diagnostic("getOutletFlow", r)

Next ==
  \/ Step
  \/ UpdateParameters
  \/ GetState
  \/ GetConversion
  \/ GetResidenceTime
  \/ GetHeatRemovalRate
  \/ GetReactionRate
  \/ GetOutletFlow

Spec == Init /\ [][Next]_vars

\* ------------------------------------------------------------ a caller that
\* writes to the objects it holds

\* The caller assigns v to field f of the state object it holds as `field`.
WriteState(name, field) ==
  /\ field \in DOMAIN caller
  /\ hist.writes < MaxWrites
  /\ \E r \in {caller[field]} :
     \E f \in DOMAIN sh[r] \cap WrittenFields, v \in WrittenValues :
       /\ sh[r][f] # v
       /\ After([M EXCEPT !.sh[r][f] = v], caller, name, <<>>,
                [hist EXCEPT !.writes = @ + 1, !.written = @ \cup {field}])

\* The same for a parameter object.
WriteParams(name, field) ==
  /\ field \in DOMAIN caller
  /\ hist.writes < MaxWrites
  /\ \E r \in {caller[field]} :
     \E f \in DOMAIN ph[r] \cap WrittenFields, v \in WrittenValues :
       /\ ph[r][f] # v
       /\ After([M EXCEPT !.ph[r][f] = v], caller, name, <<>>,
                [hist EXCEPT !.writes = @ + 1, !.written = @ \cup {field}])

WriteInitialState == WriteState("write initialState", "initialState")
WriteReturned == WriteState("write returned", "returned")
WriteParameters == WriteParams("write parameters", "parameters")
WriteNewParams == WriteParams("write newParams", "newParams")

InitCaller ==
  InitWith({[BaseState EXCEPT !.concentration = Num(2), !.temperature = Num(3),
                              !.jacketTemp = Num(2)]},
           {BaseParameters}, TRUE)

NextCaller ==
  \/ Step
  \/ UpdateParameters
  \/ GetState
  \/ GetConversion
  \/ WriteInitialState
  \/ WriteReturned
  \/ WriteParameters
  \/ WriteNewParams

SpecCaller == InitCaller /\ [][NextCaller]_vars

\* ------------------------------------------------------------ two instances
\* constructed from the same initialState and parameters objects, one of which
\* is called

InitPair ==
  \E s0 \in StateInputs, p0 \in ParameterInputs :
  \E a \in {constructor(<<s0>>, <<p0>>, 1, 1)} :
  \E b \in {constructor(a.sh, a.ph, 1, 1)} :
  \E called \in {a, b}, other \in {a, b} :
    /\ called.state # other.state \/ a.state = b.state
    /\ called.params # other.params
    /\ sim = [state |-> called.state, params |-> called.params]
    /\ caller = [initialState |-> 1, parameters |-> 1,
                 otherState |-> other.state, otherParams |-> other.params]
    /\ sh = b.sh
    /\ ph = b.ph
    /\ op = "constructor"
    /\ ret = <<>>
    /\ hist = [initial |-> [state |-> s0, params |-> p0],
               steps |-> 0, updates |-> 0, writes |-> 0,
               before |-> [state |-> s0, params |-> p0],
               stages |-> <<>>, newParams |-> <<>>,
               pending |-> <<>>, applied |-> <<>>, written |-> {},
               untouched |-> <<[state |-> s0, params |-> p0]>>]

SpecPair == InitPair /\ [][Next]_vars

\* ------------------------------------------------------------ two models
\* with the same volume, inlet flow rate, valve constant and minimum volume,
\* and otherwise different; the methods called on the one are called on the
\* other

\* The fields of the state and of the parameters that the second model has of
\* its own
VariantStates ==
  {[concentration |-> Num(2), temperature |-> Num(5), jacketTemp |-> Num(4)],
   [concentration |-> Rat(1, 2), temperature |-> Num(1),
    jacketTemp |-> Num(3)]}

VariantParameters ==
  {[BaseParameters EXCEPT !.feedConcentration = Num(2),
                          !.feedTemperature = Num(3),
                          !.jacketInletTemp = Num(2),
                          !.preExponentialFactor = Num(1),
                          !.activationEnergy = Num(0),
                          !.reactionOrder = Num(1),
                          !.density = Num(2),
                          !.heatCapacity = Num(2),
                          !.heatOfReaction = Num(-1),
                          !.heatTransferCoeff = Num(1),
                          !.heatTransferArea = Num(2),
                          !.jacketDensity = Num(2),
                          !.jacketHeatCapacity = Num(2),
                          !.jacketVolume = Num(2),
                          !.jacketFlowRate = Num(1)],
   [BaseParameters EXCEPT !.preExponentialFactor = Num(1),
                          !.activationEnergy = Num(1),
                          !.gasConstant = Num(2),
                          !.heatTransferCoeff = Num(2)]}

\* The second model of a model of state s and parameters p
Variants(s, p) ==
  {[state |-> [s EXCEPT !.concentration = x.concentration,
                        !.temperature = x.temperature,
                        !.jacketTemp = x.jacketTemp],
    params |-> [q EXCEPT !.inletFlowRate = p.inletFlowRate,
                         !.valveConstant = p.valveConstant,
                         !.minimumVolume = p.minimumVolume]] :
     x \in VariantStates, q \in VariantParameters}

InitVariant ==
  \E s0 \in StateInputs, p0 \in ParameterInputs :
  \E m \in {constructor(<<s0>>, <<p0>>, 1, 1)} :
  \E second \in Variants(s0, p0) :
    /\ sim = [state |-> m.state, params |-> m.params]
    /\ caller = [initialState |-> 1, parameters |-> 1]
    /\ sh = m.sh
    /\ ph = m.ph
    /\ op = "constructor"
    /\ ret = <<>>
    /\ hist = [initial |-> [state |-> s0, params |-> p0],
               steps |-> 0, updates |-> 0, writes |-> 0,
               before |-> [state |-> s0, params |-> p0],
               stages |-> <<>>, newParams |-> <<>>,
               pending |-> <<>>, applied |-> <<>>, written |-> {},
               untouched |-> <<second>>]

NextVariant ==
  \/ Step
  \/ UpdateParameters

SpecVariant == InitVariant /\ [][NextVariant]_vars

\* ------------------------------------------------------------ the diagnostics
\* read at instances constructed over a grid of volumes, concentrations, feed
\* concentrations and valve settings

DiagnosticStates ==
  {[BaseState EXCEPT !.volume = v, !.concentration = c] :
     v \in {Num(-1), Num(0), Rat(1, 20), Rat(1, 10), Num(1), PosInf},
     c \in {Num(-1), Num(0), Rat(1, 2), Num(1), Num(2), NaN, PosInf}}

DiagnosticParameters ==
  {[BaseParameters EXCEPT !.feedConcentration = c0, !.valveConstant = kv,
                          !.minimumVolume = vmin] :
     c0 \in {Num(0), NegZero, Num(1), Num(2)},
     kv \in {Num(10), Num(20), Num(0), Num(-10)},
     vmin \in {Num(0), Rat(1, 20)}}

InitDiagnostics == InitWith(DiagnosticStates, DiagnosticParameters, FALSE)

NextDiagnostics ==
  \/ GetConversion
  \/ GetResidenceTime
  \/ GetHeatRemovalRate
  \/ GetReactionRate
  \/ GetOutletFlow

SpecDiagnostics == InitDiagnostics /\ [][NextDiagnostics]_vars

\* ------------------------------------------------------------ the volume
\* equation with numbers of any size.  dV/dt reads the volume and three
\* parameters only, so the volume and the time that step() leaves do not depend
\* on the other fields; here they are computed with rationals whose numerator
\* and denominator are sequences of digits to the base 10000, lowest first,
\* which hold the values that the numbers above cannot.

RECURSIVE BigOf(_)
BigOf(i) == IF i = 0 THEN <<>> ELSE <<i % 10000>> \o BigOf(i \div 10000)

Rest(a) == IF a = <<>> THEN <<>> ELSE Tail(a)
Low(a) == IF a = <<>> THEN 0 ELSE Head(a)

RECURSIVE Strip(_)
Strip(a) ==
  IF a = <<>> \/ a[Len(a)] # 0 THEN a ELSE Strip(SubSeq(a, 1, Len(a) - 1))

RECURSIVE BigAddCarry(_, _, _)
BigAddCarry(a, b, c) ==
  IF a = <<>> /\ b = <<>> THEN (IF c = 0 THEN <<>> ELSE <<c>>)
  ELSE <<(Low(a) + Low(b) + c) % 10000>>
         \o BigAddCarry(Rest(a), Rest(b), (Low(a) + Low(b) + c) \div 10000)
BigAdd(a, b) == BigAddCarry(a, b, 0)

\* a - b for a >= b
RECURSIVE BigSubBorrow(_, _, _)
BigSubBorrow(a, b, c) ==
  IF a = <<>> THEN <<>>
  ELSE <<(Low(a) - Low(b) - c + 10000) % 10000>>
         \o BigSubBorrow(Rest(a), Rest(b),
                         IF Low(a) - Low(b) - c < 0 THEN 1 ELSE 0)
BigSub(a, b) == Strip(BigSubBorrow(a, b, 0))

\* a * k for a digit k
RECURSIVE BigScale(_, _, _)
BigScale(a, k, c) ==
  IF a = <<>> THEN (IF c = 0 THEN <<>> ELSE <<c>>)
  ELSE <<(Head(a) * k + c) % 10000>>
         \o BigScale(Tail(a), k, (Head(a) * k + c) \div 10000)

RECURSIVE BigMul(_, _)
BigMul(a, b) ==
  IF a = <<>> \/ b = <<>> THEN <<>>
  ELSE Strip(BigAdd(BigScale(b, Head(a), 0), <<0>> \o BigMul(Tail(a), b)))

BigLess(a, b) ==
  IF Len(a) # Len(b) THEN Len(a) < Len(b)
  ELSE \E i \in 1..Len(a) :
         a[i] < b[i] /\ \A j \in (i + 1)..Len(a) : a[j] = b[j]

\* Quotient and remainder of a by a digit k > 0
RECURSIVE BigDivRem(_, _)
BigDivRem(a, k) ==
  IF a = <<>> THEN [q |-> <<>>, r |-> 0]
  ELSE Bind(BigDivRem(Tail(a), k), LAMBDA hi :
         [q |-> <<(hi.r * 10000 + Head(a)) \div k>> \o hi.q,
          r |-> (hi.r * 10000 + Head(a)) % k])

\* a / d with the common factors k taken out; the denominators here have no
\* prime factors but 2, 3 and 5, so taking these out gives lowest terms.
RECURSIVE ReducedBy(_, _, _)
ReducedBy(a, d, k) ==
  IF a # <<>> /\ BigDivRem(a, k).r = 0 /\ BigDivRem(d, k).r = 0
    THEN ReducedBy(Strip(BigDivRem(a, k).q), Strip(BigDivRem(d, k).q), k)
    ELSE [n |-> a, d |-> d]
Reduced(a, d) ==
  IF a = <<>> THEN [n |-> a, d |-> <<1>>]
  ELSE Bind(ReducedBy(a, d, 2), LAMBDA x :
       Bind(ReducedBy(x.n, x.d, 3), LAMBDA y : ReducedBy(y.n, y.d, 5)))

\* The number of sign neg and magnitude a / d
ExSigned(neg, a, d) ==
  Bind(Reduced(a, d), LAMBDA r : [neg |-> neg /\ a # <<>>, n |-> r.n, d |-> r.d])

\* The number p / q, for integers p and q > 0
Exact(p, q) == ExSigned(p < 0, BigOf(IF p < 0 THEN -p ELSE p), BigOf(q))

\* Binary + - *, division by an integer k > 0, and the comparisons
ExAddScaled(x, y, a, b, d) ==
  IF x.neg = y.neg THEN ExSigned(x.neg, BigAdd(a, b), d)
  ELSE IF BigLess(a, b) THEN ExSigned(y.neg, BigSub(b, a), d)
  ELSE ExSigned(x.neg, BigSub(a, b), d)
ExAdd(x, y) ==
  ExAddScaled(x, y, BigMul(x.n, y.d), BigMul(y.n, x.d), BigMul(x.d, y.d))
ExNeg(x) == ExSigned(~x.neg, x.n, x.d)
ExSub(x, y) == ExAdd(x, ExNeg(y))
ExMul(x, y) == ExSigned(x.neg # y.neg, BigMul(x.n, y.n), BigMul(x.d, y.d))
ExOver(x, k) == ExSigned(x.neg, x.n, BigMul(x.d, BigOf(k)))
ExEq(x, y) == x.neg = y.neg /\ BigMul(x.n, y.d) = BigMul(y.n, x.d)
ExLess(x, y) == ExSub(x, y).neg

dtExact == Exact(1, 10)

\* A faulty stepVolume: the first-order step V + dt * dV/dt.
stepVolume_euler(v, p) ==
  ExAdd(v, ExMul(dtExact,
                 ExSub(p.inletFlowRate,
                       ExMul(p.valveConstant, ExSub(v, p.minimumVolume)))))

\* getOutletFlowRate() and volumeDerivative() at volume v and parameters p
outletFlowRateAt(v, p) == ExMul(p.valveConstant, ExSub(v, p.minimumVolume))
volumeDerivativeAt(v, p) == ExSub(p.inletFlowRate, outletFlowRateAt(v, p))

\* The volume that step() leaves, from volume v with parameters p
stepVolume(v, p) ==
  Bind(ExMul(dtExact, volumeDerivativeAt(v, p)), LAMBDA k1_v :
  Bind(ExMul(dtExact, volumeDerivativeAt(ExAdd(v, ExOver(k1_v, 2)), p)),
       LAMBDA k2_v :
  Bind(ExMul(dtExact, volumeDerivativeAt(ExAdd(v, ExOver(k2_v, 2)), p)),
       LAMBDA k3_v :
  Bind(ExMul(dtExact, volumeDerivativeAt(ExAdd(v, k3_v), p)), LAMBDA k4_v :
    ExAdd(v, ExOver(ExAdd(ExAdd(ExAdd(k1_v, ExMul(Exact(2, 1), k2_v)),
                                ExMul(Exact(2, 1), k3_v)),
                          k4_v),
                    6))))))

\* The application's initial volume and time, and its inlet flow rate, valve
\* constant and minimum volume.
ReferenceState == [volume |-> Exact(1, 1), time |-> Exact(0, 1)]
ReferenceParameters ==
  [inletFlowRate |-> Exact(1, 1), valveConstant |-> Exact(1, 10),
   minimumVolume |-> Exact(1, 10)]

VolumeStates ==
  {[ReferenceState EXCEPT !.volume = v] :
     v \in {Exact(1, 1), Exact(1, 2), Exact(2, 1), Exact(1, 10), Exact(0, 1)}}
VolumeParameters ==
  {[inletFlowRate |-> f0, valveConstant |-> kv, minimumVolume |-> vmin] :
     f0 \in {Exact(1, 1), Exact(2, 1)},
     kv \in {Exact(1, 10), Exact(1, 5), Exact(1, 1)},
     vmin \in {Exact(1, 10), Exact(0, 1)}}

InitVolume ==
  \E s0 \in VolumeStates, p0 \in VolumeParameters :
    /\ sh = <<s0>>
    /\ ph = <<p0>>
    /\ sim = [state |-> 1, params |-> 1]
    /\ caller = <<>>
    /\ op = "constructor"
    /\ ret = <<>>
    /\ hist = [initial |-> [state |-> s0, params |-> p0], steps |-> 0]

\* simulator.step(), its effect on volume and time
StepVolume ==
  /\ hist.steps < MaxSteps
  /\ sh' = [sh EXCEPT ![sim.state] =
              [volume |-> stepVolume(@.volume, ph[sim.params]),
               time |-> ExAdd(@.time, dtExact)]]
  /\ op' = "step"
  /\ ret' = <<>>
  /\ hist' = [hist EXCEPT !.steps = @ + 1]
  /\ UNCHANGED <<ph, sim, caller>>

\* const x = simulator.getOutletFlow()
GetOutletFlowOfVolume ==
  /\ op' = "getOutletFlow"
  /\ ret' = <<outletFlowRateAt(sh[sim.state].volume, ph[sim.params])>>
  /\ UNCHANGED <<sh, ph, sim, caller, hist>>

NextVolume ==
  \/ StepVolume
  \/ GetOutletFlowOfVolume

SpecVolume == InitVolume /\ [][NextVolume]_vars

\* ------------------------------------------------------------ the
\* application: the component App, which owns one simulator
\* (simulatorRef.current), steps it on a timer while running, and keeps the
\* state it displays and a history of samples.
\*
\* In the specification of the application `caller` is the state of App:
\* isRunning, simulationSpeed, cstrParams, currentState and history, held by
\* value; sh, ph and sim hold the simulator, with the objects it was given at
\* 1 and its own at 2.  A state update that an event requests is applied in the
\* render that follows the event, before the next event; the updater functions
\* passed to setHistory run in that render, in the order they were queued.

maxPoints == 50

\* useState<CSTRParameters>({ inletFlowRate: 1.0, .. })
DefaultCstrParams ==
  [inletFlowRate |-> Num(1), feedConcentration |-> Rat(1, 2),
   feedTemperature |-> Num(350), jacketInletTemp |-> Num(300),
   valveConstant |-> Rat(1, 10), minimumVolume |-> Rat(1, 10),
   preExponentialFactor |-> Num(1), activationEnergy |-> Num(10000),
   gasConstant |-> Rat(8314, 1000), reactionOrder |-> Num(2),
   density |-> Num(1000), heatCapacity |-> Rat(418, 100),
   heatOfReaction |-> Num(1), heatTransferCoeff |-> Num(100),
   heatTransferArea |-> Num(1), jacketDensity |-> Num(1000),
   jacketHeatCapacity |-> Rat(418, 100), jacketVolume |-> Rat(1, 10),
   jacketFlowRate |-> Rat(1, 10)]

\* const initialState: CSTRState = { volume: 1.0, .. }
AppInitialState ==
  [volume |-> Num(1), concentration |-> Rat(1, 2), temperature |-> Num(350),
   jacketTemp |-> Num(300), time |-> Num(0)]

\* useState<ParameterHistory>({ volume: [1.0], .. })
InitialHistory ==
  [volume |-> <<Num(1)>>, concentration |-> <<Rat(1, 2)>>,
   temperature |-> <<Num(350)>>, jacketTemp |-> <<Num(300)>>,
   time |-> <<Num(0)>>, conversion |-> <<Num(0)>>,
   reactionRate |-> <<Num(0)>>, outletFlow |-> <<Num(0)>>]

\* The options of the speed selector
SpeedOptions == {1, 2, 5, 10}

\* The slider settings that the user chooses here, within the sliders' ranges
SliderInputs ==
  {[key |-> "feedConcentration", value |-> Num(1)],
   [key |-> "inletFlowRate", value |-> Num(2)]}

\* Bounds of the model of the application: the ticks and the clicks of a run,
\* and those of a run long enough to fill the history
MaxTicks == 2
MaxClicks == 4
MaxWindowTicks == 6
MaxWindowClicks == 2

\* A faulty slice: nothing is dropped.
SliceLast_all(a, n) == a

\* a.slice(-n) for n > 0: the last n elements of a, or all of a
SliceLast(a, n) == IF Len(a) <= n THEN a ELSE SubSeq(a, Len(a) - n + 1, Len(a))

\* [...a.slice(-maxPoints + 1), x]
Sampled(a, x) == Append(SliceLast(a, maxPoints - 1), x)

\* The updater passed to setHistory for newState, run when the simulator is m
HistoryUpdater(prev, newState, m) ==
  [volume |-> Sampled(prev.volume, newState.volume),
   concentration |-> Sampled(prev.concentration, newState.concentration),
   temperature |-> Sampled(prev.temperature, newState.temperature),
   jacketTemp |-> Sampled(prev.jacketTemp, newState.jacketTemp),
   time |-> Sampled(prev.time, newState.time),
   conversion |-> Sampled(prev.conversion, getConversion(m).ret),
   reactionRate |-> Sampled(prev.reactionRate, getReactionRate(m).ret),
   outletFlow |-> Sampled(prev.outletFlow, getOutletFlow(m).ret)]

\* The updaters for the states newStates, run in order, the updater of
\* newStates[i] when the simulator is ms[i]
RECURSIVE Rendered(_, _, _)
Rendered(prev, newStates, ms) ==
  IF newStates = <<>> THEN prev
  ELSE Rendered(HistoryUpdater(prev, Head(newStates), Head(ms)),
                Tail(newStates), Tail(ms))

\* A faulty loop bound: one step per tick whatever the speed.
StepsPerTick_one(simulationSpeed) == 1

\* for (let i = 0; i < simulationSpeed; i++)
StepsPerTick(simulationSpeed) == simulationSpeed

\* The body of the loop n times from simulator m: the simulator it leaves, the
\* state objects that step() returned, the parameters each step read, and the
\* simulator as each step left it.
RECURSIVE Looped(_, _)
Looped(m, n) ==
  IF n = 0 THEN [m |-> m, newStates |-> <<>>, read |-> <<>>, after |-> <<>>]
  ELSE Bind(step(m), LAMBDA r :
       Bind(Fresh(Read(r.m)), LAMBDA next :
       Bind(Looped(next, n - 1), LAMBDA rest :
         [m |-> rest.m,
          newStates |-> <<r.m.sh[r.ret]>> \o rest.newStates,
          read |-> <<r.stages[1].params>> \o rest.read,
          after |-> <<next>> \o rest.after])))

\* The simulator that the updater of each step of a tick reads.  Where the
\* updates of a timer callback are batched the updaters run in the render
\* after the callback, when the simulator is as the last step left it; where
\* they are not, each setHistory runs its updater at once.
UpdaterReads(r, batched) ==
  IF batched THEN [i \in 1..Len(r.after) |-> r.m] ELSE r.after

\* A faulty parameter effect: the simulator is not updated.
SyncParameters_skipped(m, params) == m

\* simulatorRef.current.updateParameters(cstrParams)
SyncParameters(m, params) ==
  updateParameters([m EXCEPT !.ph = Put(@, NewRef(@), params)], NewRef(m.ph))

\* A faulty reset: the new simulator is given the default parameters.
ResetParameters_defaults(c) == DefaultCstrParams

\* The parameters that resetSimulation constructs the new simulator with
ResetParameters(c) == c.cstrParams

\* The interval is set while isRunning (and there is a simulator), and is
\* cleared when isRunning or simulationSpeed changes.
IntervalActive(c) == c.isRunning

\* The state of App after an event that leaves the simulator at m and App at
\* c, with h the history of the run.
AppAfter(m, c, name, h) ==
  /\ \E f \in {Fresh(Read(m))} :
       /\ sh' = f.sh
       /\ ph' = f.ph
       /\ sim' = [state |-> f.state, params |-> f.params]
  /\ caller' = c
  /\ op' = name
  /\ ret' = <<>>
  /\ hist' = [h EXCEPT !.before = [state |-> S(M), params |-> P(M),
                                   app |-> caller, readAt |-> hist.readAt,
                                   changedPaused |-> hist.changedPaused]]

\* App mounted: the simulator constructed from initialState and cstrParams,
\* and the parameter effect run once.  The run is of at most maxTicks ticks
\* and maxClicks clicks, under a React that batches the updates of a timer
\* callback or under one that does not.
Mounted(maxTicks, maxClicks) ==
  \E batched \in BOOLEAN :
  \E m \in {SyncParameters(Fresh([state |-> AppInitialState,
                                  params |-> DefaultCstrParams]),
                           DefaultCstrParams)} :
  \E f \in {Fresh(Read(m))} :
    /\ sh = f.sh
    /\ ph = f.ph
    /\ sim = [state |-> f.state, params |-> f.params]
    /\ caller = [isRunning |-> FALSE, simulationSpeed |-> 1,
                 cstrParams |-> DefaultCstrParams,
                 currentState |-> AppInitialState,
                 history |-> InitialHistory]
    /\ op = "mount"
    /\ ret = <<>>
    /\ hist = [maxTicks |-> maxTicks, maxClicks |-> maxClicks,
               batched |-> batched,
               ticks |-> 0, clicks |-> 0, stepped |-> 0, steps |-> 0,
               read |-> <<>>, readAt |-> <<<<>>>>, changedPaused |-> FALSE,
               before |-> [state |-> AppInitialState,
                           params |-> DefaultCstrParams,
                           app |-> [isRunning |-> FALSE, simulationSpeed |-> 1,
                                    cstrParams |-> DefaultCstrParams,
                                    currentState |-> AppInitialState,
                                    history |-> InitialHistory],
                           readAt |-> <<<<>>>>, changedPaused |-> FALSE]]

InitApp == Mounted(MaxTicks, MaxClicks)

\* The times of the simulator at which the diagnostics of each sample of the
\* history were read: <<>> for the sample that history starts with.
RECURSIVE ReadAt(_, _)
ReadAt(prev, ms) ==
  IF ms = <<>> THEN prev
  ELSE ReadAt(Sampled(prev, <<S(Head(ms)).time>>), Tail(ms))

\* The callback of the interval, and the render that follows it
Tick ==
  /\ IntervalActive(caller)
  /\ hist.ticks < hist.maxTicks
  /\ \E r \in {Looped(M, StepsPerTick(caller.simulationSpeed))} :
       AppAfter(r.m,
                [caller EXCEPT
                   !.currentState = r.newStates[Len(r.newStates)],
                   !.history = Rendered(@, r.newStates,
                                        UpdaterReads(r, hist.batched))],
                "tick",
                [hist EXCEPT !.ticks = @ + 1,
                             !.stepped = Len(r.newStates),
                             !.steps = @ + Len(r.newStates),
                             !.read = r.read, !.changedPaused = FALSE,
                             !.readAt =
                               ReadAt(@, UpdaterReads(r, hist.batched))])

\* A click on Start or Pause
ToggleRunning ==
  /\ hist.clicks < hist.maxClicks
  /\ AppAfter(M, [caller EXCEPT !.isRunning = ~@], "toggle",
              [hist EXCEPT !.clicks = @ + 1, !.stepped = 0])

\* A choice in the speed selector
SelectSpeed ==
  /\ hist.clicks < hist.maxClicks
  /\ \E n \in SpeedOptions \ {caller.simulationSpeed} :
       AppAfter(M, [caller EXCEPT !.simulationSpeed = n], "speed",
                [hist EXCEPT !.clicks = @ + 1, !.stepped = 0])

\* A slider moved: handleParameterChange(key, value), and the parameter effect
MoveSlider ==
  /\ hist.clicks < hist.maxClicks
  /\ \E x \in SliderInputs :
       /\ caller.cstrParams[x.key] # x.value
       /\ \E q \in {[caller.cstrParams EXCEPT ![x.key] = x.value]} :
            AppAfter(SyncParameters(M, q), [caller EXCEPT !.cstrParams = q],
                     "slider",
                     [hist EXCEPT !.clicks = @ + 1, !.stepped = 0,
                                  !.changedPaused = @ \/ ~caller.isRunning])

\* A click on Reset: resetSimulation()
ResetSimulation ==
  /\ hist.clicks < hist.maxClicks
  /\ AppAfter(Fresh([state |-> AppInitialState,
                     params |-> ResetParameters(caller)]),
              [caller EXCEPT !.isRunning = FALSE,
                             !.currentState = AppInitialState,
                             !.history = InitialHistory],
              "reset",
              [hist EXCEPT !.clicks = @ + 1, !.stepped = 0, !.steps = 0,
                           !.readAt = <<<<>>>>, !.changedPaused = FALSE])

NextApp ==
  \/ Tick
  \/ ToggleRunning
  \/ SelectSpeed
  \/ MoveSlider
  \/ ResetSimulation

SpecApp == InitApp /\ [][NextApp]_vars

\* The application in a run of more ticks and fewer clicks
InitWindow == Mounted(MaxWindowTicks, MaxWindowClicks)

SpecWindow == InitWindow /\ [][NextApp]_vars

\* ------------------------------------------------------------ properties

PhysicalFields == {"volume", "concentration", "temperature", "jacketTemp"}

Getters ==
  {"getConversion", "getResidenceTime", "getHeatRemovalRate", "getReactionRate",
   "getOutletFlow"}

\* C1: after n calls of step(), with any updateParameters, getState and
\* diagnostic calls between them, state.time is the initial time plus n * dt.
C1_TimeIsStepsTimesDt ==
  S(M).time = Add(hist.initial.state.time, Mul(Num(hist.steps), dt))

C1_Witness ==
  /\ hist.steps >= 2
  /\ hist.updates >= 1
  /\ op \in Getters

\* The classical fourth-order Runge-Kutta step, on values: x + k, k / 2, the
\* weighted mean of the four slopes, and dt * f(x) under parameters p.
Advanced(x, k) ==
  [x EXCEPT !.volume = Add(@, k.v), !.concentration = Add(@, k.c),
            !.temperature = Add(@, k.t), !.jacketTemp = Add(@, k.tj)]
Halved(k) == [i \in DOMAIN k |-> Div(k[i], Num(2))]
Weighted(k1, k2, k3, k4) ==
  [i \in DOMAIN k1 |->
     Div(Add(Add(k1[i], Mul(Num(2), k2[i])), Add(Mul(Num(2), k3[i]), k4[i])),
         Num(6))]
Slope(x, p) == Derivatives(Fresh([state |-> x, params |-> p]))
Rk4(x0, p) ==
  Bind(Slope(x0, p), LAMBDA k1 :
  Bind(Slope(Advanced(x0, Halved(k1)), p), LAMBDA k2 :
  Bind(Slope(Advanced(x0, Halved(k2)), p), LAMBDA k3 :
  Bind(Slope(Advanced(x0, k3), p), LAMBDA k4 :
    [stages |-> <<x0, Advanced(x0, Halved(k1)), Advanced(x0, Halved(k2)),
                  Advanced(x0, k3)>>,
     result |-> Advanced(x0, Weighted(k1, k2, k3, k4))]))))

\* C2: step() is the classical Runge-Kutta step from the state x0 it was
\* entered with: its four slopes are evaluated at x0, x0 + k1/2, x0 + k2/2 and
\* x0 + k3, and it leaves x0 + (k1 + 2 k2 + 2 k3 + k4)/6 in the four
\* integrated fields.
C2_StepIsRk4 ==
  op = "step" =>
    \E r \in {Rk4(hist.before.state, hist.before.params)} :
      /\ \A i \in 1..4 : hist.stages[i].state = r.stages[i]
      /\ \A f \in PhysicalFields : S(M)[f] = r.result[f]

C2_Witness ==
  /\ op = "step"
  /\ hist.steps >= 2
  /\ \A f \in PhysicalFields : S(M)[f] # hist.before.state[f]
  /\ \A f \in PhysicalFields : IsFinite(S(M)[f])

\* C3: updateParameters(partial) gives the fields of partial their new values,
\* leaves the other parameter fields as they were, and leaves the state alone.
C3_UpdateMerges ==
  op = "updateParameters" =>
    /\ DOMAIN P(M) = ParamFields
    /\ \A f \in ParamFields :
         P(M)[f] = IF f \in DOMAIN hist.newParams THEN hist.newParams[f]
                   ELSE hist.before.params[f]
    /\ S(M) = hist.before.state

C3_Witness ==
  /\ op = "updateParameters"
  /\ hist.steps >= 1
  /\ P(M) # hist.before.params

\* The parameters p updated with a1, .., for q = <<p, a1, ..>>
RECURSIVE MergedParams(_)
MergedParams(q) ==
  IF Len(q) = 1 THEN q[1]
  ELSE [f \in ParamFields |->
          IF f \in DOMAIN q[Len(q)] THEN q[Len(q)][f]
          ELSE MergedParams(SubSeq(q, 1, Len(q) - 1))[f]]

\* C4: the step() that follows updateParameters gives the state that one
\* step() of a new instance holding the same state and the merged parameters
\* gives, and reads the merged parameters in each of its four evaluations.
C4_UpdateTakesEffectInNextStep ==
  op = "step" /\ hist.applied # <<>> =>
    \E p \in {MergedParams(hist.applied)} :
    \E r \in {step(Fresh([state |-> hist.before.state, params |-> p]))} :
      /\ S(M) = S(r.m)
      /\ \A i \in 1..4 : hist.stages[i].params = p

\* The update changed what the step does.
C4_Witness ==
  /\ op = "step"
  /\ hist.applied # <<>>
  /\ S(M) # S(step(Fresh([state |-> hist.before.state,
                          params |-> hist.applied[1]])).m)

\* C5: what step() and getState() return is a copy of the state: it is another
\* object with the state's values, and an instance whose caller has written to
\* a returned object holds what it would hold had the caller not written.
C5_ReturnedStateIsACopy ==
  /\ op \in {"step", "getState"} =>
       caller.returned # sim.state /\ sh[caller.returned] = S(M)
  /\ "returned" \in hist.written => Read(M) = hist.untouched[1]

C5_Witness ==
  /\ "returned" \in hist.written
  /\ op = "step"
  /\ hist.steps >= 2

\* C6: an instance whose caller has written to the initialState or parameters
\* object it was constructed with, or to an object it passed to
\* updateParameters, holds what it would hold had the caller not written, and
\* its diagnostics return the same.
C6_ArgumentsAreCopied ==
  hist.written \cap {"initialState", "parameters", "newParams"} # {} =>
    /\ Read(M) = hist.untouched[1]
    /\ op = "getConversion" =>
         ret = <<getConversion(Fresh(hist.untouched[1])).ret>>

C6_Witness ==
  /\ hist.written \cap {"initialState", "parameters", "newParams"} # {}
  /\ op = "step"
  /\ hist.updates >= 1

\* C7: step() leaves the parameters alone: each of its four evaluations reads,
\* and the instance holds afterwards, the parameters step() was entered with.
C7_StepKeepsParameters ==
  op = "step" =>
    /\ P(M) = hist.before.params
    /\ \A i \in 1..4 : hist.stages[i].params = hist.before.params

C7_Witness ==
  /\ op = "step"
  /\ hist.updates >= 1
  /\ S(M).volume # hist.before.state.volume

\* C8: getState() and the five diagnostics leave state and parameters as they
\* were, only step() changes the state, and time never decreases.
C8_OnlyStepChangesState ==
  /\ op \in Getters \cup {"getState"} => Read(M) = hist.before
  /\ op # "step" => S(M) = hist.before.state
  /\ Ge(S(M).time, hist.before.state.time)

C8_Witness ==
  /\ op = "getOutletFlow"
  /\ hist.steps >= 1
  /\ ret # <<S(M).volume>>

\* The zero-reaction steady check: no reaction (preExponentialFactor = 0), the
\* initial volume is minimumVolume + inletFlowRate / valveConstant, and the
\* parameters are the initial ones.
ZeroReactionSteady ==
  /\ hist.updates = 0
  /\ IsZero(hist.initial.params.preExponentialFactor)
  /\ hist.initial.state.volume =
       Add(hist.initial.params.minimumVolume,
           Div(hist.initial.params.inletFlowRate,
               hist.initial.params.valveConstant))

\* C9 as stated: in the zero-reaction steady check, volume and concentration
\* keep their initial values whatever the initial concentration is.
C9_AsStated ==
  ZeroReactionSteady =>
    /\ S(M).volume = hist.initial.state.volume
    /\ S(M).concentration = hist.initial.state.concentration

\* C9: in the zero-reaction steady check the volume keeps its initial value,
\* and the concentration keeps its initial value if that is the feed
\* concentration.
C9_SteadyVolume ==
  ZeroReactionSteady =>
    /\ S(M).volume = hist.initial.state.volume
    /\ hist.initial.state.concentration = hist.initial.params.feedConcentration
         => S(M).concentration = hist.initial.state.concentration

C9_Witness ==
  /\ ZeroReactionSteady
  /\ hist.steps >= 2
  /\ hist.initial.state.concentration = hist.initial.params.feedConcentration
  /\ S(M).temperature # hist.initial.state.temperature

\* C10 as stated: a step() entered with volume <= 0 leaves volume,
\* concentration, temperature and jacketTemp all non-finite.
C10_AsStated ==
  op = "step" /\ Ge(Num(0), hist.before.state.volume) =>
    \A f \in PhysicalFields : ~IsFinite(S(M)[f])

\* C10: a step() entered with volume 0 divides by zero in its concentration
\* and temperature derivatives, and leaves concentration, temperature and
\* jacketTemp non-finite; the volume it leaves is finite.
C10_ZeroVolume ==
  op = "step" /\ IsZero(hist.before.state.volume) =>
    /\ \E k1 \in {Slope(hist.before.state, hist.before.params)} :
         ~IsFinite(k1.c) /\ ~IsFinite(k1.t)
    /\ \A f \in PhysicalFields \ {"volume"} : ~IsFinite(S(M)[f])
    /\ IsFinite(S(M).volume)

C10_Witness ==
  /\ op = "step"
  /\ IsZero(hist.before.state.volume)
  /\ IsNaN(S(M).concentration)
  /\ IsFinite(S(M).volume)

\* ---- C11
\* A state or parameter object with a degenerate value: a zero or negative
\* volume, a negative concentration, or a value that is not finite.
Degenerate(x) ==
  \/ IsZero(x.volume) \/ x.volume.neg \/ x.concentration.neg
  \/ \E f \in DOMAIN x : ~IsFinite(x[f])

\* x is a number: finite, an infinity or NaN.
IsNumber(x) == IsFinite(x) \/ IsInf(x) \/ IsNaN(x)

\* C11: no operation has an error outcome.  Whatever the state, every
\* operation has returned with the instance holding a complete state and
\* parameter object of numbers (special values included): step() has advanced
\* the time by dt and returned a state object equal to the new state, also
\* when it began in a degenerate state; getState() has returned such an
\* object; a diagnostic has returned one number.
C11_NoErrorOutcome ==
  /\ DOMAIN S(M) = StateFields /\ \A f \in StateFields : IsNumber(S(M)[f])
  /\ DOMAIN P(M) = ParamFields /\ \A f \in ParamFields : IsNumber(P(M)[f])
  /\ op = "step" =>
        /\ S(M).time = Add(hist.before.state.time, dt)
        /\ "returned" \in DOMAIN caller /\ sh[caller.returned] = S(M)
  /\ op = "getState" =>
        /\ "returned" \in DOMAIN caller /\ sh[caller.returned] = S(M)
        /\ Read(M) = hist.before
  /\ op = "updateParameters" => S(M) = hist.before.state
  /\ op \in Getters => Len(ret) = 1 /\ IsNumber(ret[1])

\* step() has returned from a state with NaN in it, the time advanced.
C11_Witness ==
  /\ op = "step"
  /\ \E f \in PhysicalFields : IsNaN(hist.before.state[f])
  /\ Degenerate(S(M))
  /\ S(M).time = Mul(Num(2), dt)

\* ---- C12
\* C12: getConversion() returns exactly 0 whenever feedConcentration is 0 (of
\* either sign), whatever the current concentration is: negative, zero,
\* positive, infinite or NaN.
C12_ConversionOfZeroFeed ==
  (op = "getConversion" /\ IsZero(P(M).feedConcentration)) => ret = <<Num(0)>>

\* getConversion() has returned with feedConcentration 0 and the current
\* concentration not 0, where the quotient would be infinite.
C12_Witness ==
  /\ op = "getConversion"
  /\ IsZero(P(M).feedConcentration)
  /\ S(M).concentration = Num(2)
  /\ ret = <<Num(0)>>

\* ---- C13
\* C13: for feedConcentration CA0 > 0 (finite) and a current concentration CA
\* with 0 <= CA <= CA0, getConversion() returns (CA0 - CA) / CA0 * 100, which
\* lies in [0, 100], is 0 at CA = CA0 and is 100 at CA = 0.
C13_ConversionInRange ==
  (/\ op = "getConversion"
   /\ IsFinite(P(M).feedConcentration) /\ Gt(P(M).feedConcentration, Num(0))
   /\ Ge(S(M).concentration, Num(0))
   /\ Ge(P(M).feedConcentration, S(M).concentration))
  => /\ ret = <<Mul(Div(Sub(P(M).feedConcentration, S(M).concentration),
                        P(M).feedConcentration), Num(100))>>
     /\ Ge(ret[1], Num(0)) /\ Ge(Num(100), ret[1])
     /\ StrictEq(S(M).concentration, P(M).feedConcentration) => IsZero(ret[1])
     /\ IsZero(S(M).concentration) => ret[1] = Num(100)

\* getConversion() has returned a value strictly between 0 and 100.
C13_Witness ==
  /\ op = "getConversion"
  /\ P(M).feedConcentration = Num(2)
  /\ S(M).concentration = Rat(1, 2)
  /\ ret = <<Num(75)>>

\* ---- C14
\* KV * (V - Vmin) at the values x = [state, params]
ValveFlow(x) ==
  Mul(x.params.valveConstant, Sub(x.state.volume, x.params.minimumVolume))

\* dt times the derivatives of volume, concentration and temperature at the
\* values x, written out with F = KV * (V - Vmin) as the outlet flow.
WithValveFlow(x) ==
  LET F == ValveFlow(x)
      r == getReactionRateValue(Fresh(x))
      s == x.state
      p == x.params
      rhoCp == Mul(p.density, p.heatCapacity)
  IN  [v |-> Mul(dt, Sub(p.inletFlowRate, F)),
       c |-> Mul(dt, Div(Sub(Sub(Mul(p.inletFlowRate, p.feedConcentration),
                                 Mul(F, s.concentration)),
                             Mul(s.volume, r)),
                         s.volume)),
       t |-> Mul(dt, Div(Sub(Sub(Mul(rhoCp,
                                     Sub(Mul(p.inletFlowRate, p.feedTemperature),
                                         Mul(F, s.temperature))),
                                 Mul(Mul(p.heatOfReaction, s.volume), r)),
                             Mul(Mul(p.heatTransferCoeff, p.heatTransferArea),
                                 Sub(s.temperature, s.jacketTemp))),
                         Mul(rhoCp, s.volume)))]

\* C14: getOutletFlow() returns KV * (V - Vmin) for the current volume, not
\* clamped: with KV > 0 it is negative when V < Vmin, and it is 0 when
\* V = Vmin.  The same value is the outlet flow in the derivatives of volume,
\* concentration and temperature that step() evaluates at each of its four
\* stages, and the volume step() leaves is the combination of the four volume
\* slopes taken with it.
C14_OutletFlowUnclamped ==
  /\ op = "getOutletFlow" =>
        /\ ret = <<ValveFlow(Read(M))>>
        /\ (/\ IsFinite(P(M).valveConstant) /\ Gt(P(M).valveConstant, Num(0))
            /\ IsFinite(S(M).volume)
            /\ Gt(P(M).minimumVolume, S(M).volume))
           => Gt(Num(0), ret[1])
        /\ (IsFinite(P(M).valveConstant)
            /\ StrictEq(S(M).volume, P(M).minimumVolume)) => IsZero(ret[1])
  /\ op = "step" =>
        /\ \A i \in 1..4 :
             \E x \in {hist.stages[i]} :
             \E k \in {Slope(x.state, x.params)}, w \in {WithValveFlow(x)} :
               k.v = w.v /\ k.c = w.c /\ k.t = w.t
        /\ S(M).volume =
             Add(hist.before.state.volume,
                 Div(Add(Add(Add(WithValveFlow(hist.stages[1]).v,
                                 Mul(Num(2), WithValveFlow(hist.stages[2]).v)),
                             Mul(Num(2), WithValveFlow(hist.stages[3]).v)),
                         WithValveFlow(hist.stages[4]).v),
                     Num(6)))

\* step() has returned with every field finite from a state where the outlet
\* flow was negative at each stage.
C14_Witness ==
  /\ op = "step"
  /\ \A i \in 1..4 : Gt(Num(0), ValveFlow(hist.stages[i]))
  /\ \A f \in StateFields : IsFinite(S(M)[f])

\* ---- C15
\* C15: with F = KV * (V - Vmin), getResidenceTime() returns V / F when F > 0
\* and 0 otherwise (F zero, negative or NaN), so it never returns the quotient
\* by a zero flow, and for V > 0 it never returns a negative number.
C15_ResidenceTime ==
  op = "getResidenceTime" =>
    \E F \in {ValveFlow(Read(M))} :
      /\ Gt(F, Num(0)) => ret = <<Div(S(M).volume, F)>>
      /\ ~Gt(F, Num(0)) => ret = <<Num(0)>>
      /\ Gt(S(M).volume, Num(0)) => ~Gt(Num(0), ret[1])

\* getResidenceTime() has returned 0 at a positive volume equal to Vmin, where
\* the outlet flow is 0.
C15_Witness ==
  /\ op = "getResidenceTime"
  /\ Gt(S(M).volume, Num(0))
  /\ IsZero(ValveFlow(Read(M)))
  /\ Gt(P(M).valveConstant, Num(0))
  /\ ret = <<Num(0)>>

C17_InstancesShareNothing ==
  /\ sh[caller.otherState] = hist.initial.state
  /\ ph[caller.otherParams] = hist.initial.params
  /\ caller.otherState \notin {sim.state, caller.initialState}
  /\ caller.otherParams \notin {sim.params, caller.parameters}

\* The called instance has made a step and an update and differs from the
\* other in state and parameters.
C17_Witness ==
  /\ hist.steps >= 1 /\ hist.updates = 1
  /\ S(M) # sh[caller.otherState]
  /\ P(M) # ph[caller.otherParams]
  /\ sh[caller.otherState] = hist.initial.state

\* ---- C19
\* 1 - z + z^2/2 - z^3/6 + z^4/24: the Taylor polynomial of exp(-z) of degree 4
Taylor4(z) ==
  Add(Sub(Add(Sub(Num(1), z), Div(IntPow(z, 2), Num(2))),
          Div(IntPow(z, 3), Num(6))),
      Div(IntPow(z, 4), Num(24)))

\* Vmin + F0 / KV: the volume at which the outlet flow equals the inlet flow
SteadyVolume(p) == Add(p.minimumVolume, Div(p.inletFlowRate, p.valveConstant))

\* C19: on the volume equation dV/dt = F0 - KV * (V - Vmin), with KV not 0,
\* one step() takes the volume V0 to V* + (V0 - V*) * (1 - z + z^2/2 - z^3/6
\* + z^4/24), where V* = Vmin + F0/KV and z = KV * dt: the exact solution
\* V* + (V0 - V*) * exp(-z) with exp(-z) replaced by its Taylor polynomial of
\* degree 4.
C19_VolumeStepIsTaylor4 ==
  (/\ op = "step"
   /\ IsFinite(hist.before.state.volume)
   /\ ~IsZero(hist.before.params.valveConstant))
  => \E p \in {hist.before.params} :
       S(M).volume =
         Add(SteadyVolume(p),
             Mul(Sub(hist.before.state.volume, SteadyVolume(p)),
                 Taylor4(Mul(p.valveConstant, dt))))

\* step() has moved the volume, with z = 2 and with the other three fields
\* finite or not.
C19_Witness ==
  /\ op = "step"
  /\ hist.before.params.valveConstant = Num(20)
  /\ IsFinite(S(M).volume)
  /\ S(M).volume # hist.before.state.volume
  /\ Taylor4(Mul(hist.before.params.valveConstant, dt)) = Rat(1, 3)

\* ---- C20
\* The instance m with the reaction switched off: preExponentialFactor 0, so
\* that the rate constant and the reaction rate are 0.
WithoutReaction(m) == [m EXCEPT !.ph[m.params].preExponentialFactor = Num(0)]

\* The case of C20: heatOfReaction, volume, density and heat capacity
\* positive, every value finite, and the reaction rate positive.
ReactionReleasesHeat ==
  /\ \A f \in StateFields : IsFinite(S(M)[f])
  /\ Gt(P(M).heatOfReaction, Num(0))
  /\ Gt(S(M).volume, Num(0))
  /\ Gt(P(M).density, Num(0)) /\ Gt(P(M).heatCapacity, Num(0))
  /\ IsFinite(getReactionRateValue(M)) /\ Gt(getReactionRateValue(M), Num(0))
  /\ IsZero(getReactionRateValue(WithoutReaction(M)))

\* C20 as stated: with heatOfReaction > 0 a positive reaction rate raises
\* dT/dt: the temperature derivative is strictly greater than it is at the same
\* state and parameters with the reaction rate 0.
C20_AsStated ==
  ReactionReleasesHeat =>
    Gt(temperatureDerivative(M), temperatureDerivative(WithoutReaction(M)))

\* What the code computes in that case: the derivative is strictly smaller,
\* by heatOfReaction * r / (density * heatCapacity).
C20_Witness ==
  /\ ReactionReleasesHeat
  /\ Gt(temperatureDerivative(WithoutReaction(M)), temperatureDerivative(M))
  /\ Sub(temperatureDerivative(WithoutReaction(M)), temperatureDerivative(M))
       = Div(Mul(P(M).heatOfReaction, getReactionRateValue(M)),
             Mul(P(M).density, P(M).heatCapacity))

\* ---- C18
\* C18: in the application's scenario (V = 1.0, t = 0, F0 = 1.0, KV = 0.1,
\* Vmin = 0.1, dt = 0.1) getOutletFlow() is 0.09 and the volume derivative is
\* 0.91 before any step; after one step() the volume is 1.090546512875
\* exactly, which is within 0.001 of the first-order estimate 1.091, and the
\* time is 0.1.
C18_ReferenceScenario ==
  hist.initial = [state |-> ReferenceState, params |-> ReferenceParameters] =>
    \E x \in {sh[sim.state]}, p \in {ph[sim.params]} :
      /\ hist.steps = 0 =>
           /\ ExEq(outletFlowRateAt(x.volume, p), Exact(9, 100))
           /\ ExEq(volumeDerivativeAt(x.volume, p), Exact(91, 100))
           /\ op = "getOutletFlow" => ExEq(ret[1], Exact(9, 100))
      /\ hist.steps = 1 =>
           \* 1.090546512875 = 1.090546 + 0.512875 / 10^6
           /\ ExEq(x.volume,
                   ExAdd(Exact(1090546, 1000000),
                         ExMul(Exact(512875, 1000000), Exact(1, 1000000))))
           /\ ExLess(ExSub(Exact(1091, 1000), x.volume), Exact(1, 1000))
           /\ ExLess(ExSub(x.volume, Exact(1091, 1000)), Exact(1, 1000))
           /\ ExEq(x.time, Exact(1, 10))

\* In the application's scenario one step() has been made and getOutletFlow()
\* read after it.
C18_Witness ==
  /\ hist.initial = [state |-> ReferenceState, params |-> ReferenceParameters]
  /\ hist.steps = 1
  /\ op = "getOutletFlow"
  /\ ExLess(sh[sim.state].volume, Exact(1091, 1000))

\* ---- C21
HistoryFields ==
  {"volume", "concentration", "temperature", "jacketTemp", "time",
   "conversion", "reactionRate", "outletFlow"}

\* C21: while the simulation runs with speed N, one of 1, 2, 5 and 10, a tick
\* calls step() N times on the simulator: its time advances by N * dt, the
\* newest N times of the history are those of the N steps in order, and the
\* state displayed after the tick is the simulator's state.
C21_TickStepsNTimes ==
  op = "tick" =>
    \E N \in {hist.before.app.simulationSpeed} :
      /\ N \in SpeedOptions /\ hist.before.app.isRunning
      /\ hist.stepped = N
      /\ S(M).time = Add(hist.before.state.time, Mul(Num(N), dt))
      /\ caller.currentState = S(M)
      /\ \A i \in 1..N :
           caller.history.time[Len(caller.history.time) - N + i] =
             Add(hist.before.state.time, Mul(Num(i), dt))

\* A tick at speed 10 has followed a tick at another speed.
C21_Witness ==
  /\ op = "tick"
  /\ caller.simulationSpeed = 10 /\ hist.stepped = 10
  /\ hist.ticks >= 2
  /\ S(M).time = Rat(11, 10)

\* ---- C23
\* Sample i of the history is consistent: its conversion, reactionRate and
\* outletFlow were read from the simulator when its time was time[i]; for the
\* sample the history starts with, which is written out in the code, the
\* recorded conversion and outletFlow are those of a simulator in the initial
\* state with the default parameters.
ConsistentSample(i) ==
  IF hist.readAt[i] = <<>>
    THEN \E m \in {Fresh([state |-> AppInitialState,
                          params |-> DefaultCstrParams])} :
           /\ caller.history.conversion[i] = getConversion(m).ret
           /\ caller.history.outletFlow[i] = getOutletFlow(m).ret
    ELSE hist.readAt[i] = <<caller.history.time[i]>>

\* C23 as stated: every sample of the history is consistent, at every speed.
C23_AsStated == \A i \in 1..Len(caller.history.time) : ConsistentSample(i)

\* After a tick at a speed above 1, with the updates of the callback batched,
\* the sample of the first step of the tick holds the diagnostics read after
\* the last step of the tick.
C23_Witness ==
  /\ op = "tick" /\ hist.stepped > 1
  /\ hist.batched
  /\ \E i \in 1..Len(caller.history.time) :
       /\ hist.readAt[i] # <<>>
       /\ caller.history.time[i] = Add(hist.before.state.time, dt)
       /\ hist.readAt[i] = <<S(M).time>>
       /\ hist.readAt[i] # <<caller.history.time[i]>>

\* ---- C24
\* C24: the history is a sliding window.  Its eight arrays have one length,
\* between 1 and maxPoints; a tick of N steps appends N samples to each array
\* and keeps the newest maxPoints, so that once the length is maxPoints each
\* new sample evicts the oldest one.
C24_HistoryWindow ==
  /\ \A f \in HistoryFields :
       /\ Len(caller.history[f]) = Len(caller.history.time)
       /\ Len(caller.history[f]) >= 1 /\ Len(caller.history[f]) <= maxPoints
  /\ op = "tick" =>
       \A f \in HistoryFields :
         \E b \in {hist.before.app.history[f]}, a \in {caller.history[f]} :
           /\ Len(a) = IF Len(b) + hist.stepped <= maxPoints
                         THEN Len(b) + hist.stepped ELSE maxPoints
           /\ \A i \in 1..(Len(a) - hist.stepped) :
                a[i] = b[Len(b) - (Len(a) - hist.stepped) + i]
  /\ op = "reset" => Len(caller.history.time) = 1

\* A tick has been made with the history full before it and after it.
C24_Witness ==
  /\ op = "tick"
  /\ Len(hist.before.app.history.time) = maxPoints
  /\ Len(caller.history.time) = maxPoints
  /\ caller.history.time[1] # hist.before.app.history.time[1]

\* ---- C25
\* C25: after resetSimulation isRunning is false, the state displayed and the
\* state of the new simulator are the initial state, every array of the history
\* holds one sample, and the new simulator has the parameters that the sliders
\* are set to; the new simulator stays so until it is started: a tick is made
\* only while isRunning.
C25_ResetRestoresStart ==
  /\ op = "reset" => ~caller.isRunning
  /\ op = "tick" => hist.before.app.isRunning
  /\ hist.steps = 0 =>
       /\ S(M) = AppInitialState
       /\ caller.currentState = AppInitialState
       /\ caller.history = InitialHistory
       /\ P(M) = caller.cstrParams

\* Reset has been clicked while running, after a step and with a slider moved
\* from its default.
C25_Witness ==
  /\ op = "reset"
  /\ hist.before.app.isRunning
  /\ hist.before.state.time # Num(0)
  /\ caller.cstrParams # DefaultCstrParams
  /\ P(M) = caller.cstrParams

\* ---- C26
\* C26: step() is called only while isRunning.  An event other than Reset that
\* finds the simulation paused leaves the simulator's state, the state
\* displayed and the history as they were; a slider moved, paused or not,
\* leaves the simulator with the sliders' parameters, and the first step after
\* a pause in which a slider was moved reads the parameters that the sliders
\* are set to.
C26_PausedIsFrozen ==
  /\ op = "tick" =>
       /\ hist.before.app.isRunning
       /\ hist.before.changedPaused => hist.read[1] = caller.cstrParams
  /\ (op \in {"toggle", "speed", "slider"} /\ ~hist.before.app.isRunning) =>
       /\ S(M) = hist.before.state
       /\ caller.currentState = hist.before.app.currentState
       /\ caller.history = hist.before.app.history
  /\ op = "slider" => P(M) = caller.cstrParams

\* The first tick after a pause in which a slider was moved.
C26_Witness ==
  /\ op = "tick"
  /\ hist.before.changedPaused
  /\ hist.ticks >= 2
  /\ hist.read[1] # DefaultCstrParams

\* ---- C22
\* C22: two models with the same volume, inlet flow rate, valve constant and
\* minimum volume have the same volume after the same calls, whatever the
\* other fields of their states and their other parameters are.
C22_VolumeIndependent ==
  hist.untouched # <<>> =>
    /\ hist.untouched[1].state.volume = S(M).volume
    /\ hist.untouched[1].state.time = S(M).time

\* Two steps have been made, the volume has changed, and the two models differ
\* in concentration, temperature, jacket temperature and parameters.
C22_Witness ==
  /\ op = "step" /\ hist.steps = MaxSteps
  /\ hist.untouched # <<>>
  /\ S(M).volume # hist.initial.state.volume
  /\ S(M).volume # hist.before.state.volume
  /\ \A f \in {"concentration", "temperature", "jacketTemp"} :
       hist.untouched[1].state[f] # S(M)[f]
  /\ \A f \in {"preExponentialFactor", "heatTransferCoeff"} :
       hist.untouched[1].params[f] # P(M)[f]
  /\ ~IsZero(getReactionRateValue(Fresh(hist.untouched[1])))

=============================================================================
